---- MODULE Spec2Model ----
(***************************************************************************)
(* Model of src/sensor.py: the VOI nearest-scooter sensor.                 *)
(*                                                                         *)
(* One update() cycle is a chain of blocking HTTP calls.  The provider is  *)
(* the environment: every HTTP call is answered by a response drawn from   *)
(* a small set (status, and an empty / non-JSON / JSON body).  The model   *)
(* is cut into one action per HTTP call: the action takes the response and *)
(* runs the code up to the next HTTP call or to the end of update().       *)
(*                                                                         *)
(* Python values: a JSON body is a record [kind, keys, ...]; None is the   *)
(* JSON value of kind "null"; a missing number is None == -1.              *)
(* Numbers that the code rounds are kept in half units (a coordinate of 3  *)
(* stands for 1.5), so that round() is not the identity.                   *)
(***************************************************************************)
EXTENDS Integers, Sequences, FiniteSets, TLC

\* ------------------------------------------------------------------ bounds
MaxVehicles == 2      \* longest vehicle list the provider returns
TickMinutes == 3      \* minutes that pass in one step of the clock

\* ------------------------------------------------------ program constants
MIN_TIME_BETWEEN_UPDATES == 5   \* minutes
ATTRIBUTION == "Data provided by VOI"
ATTR_LATITUDE == "latitude"
ATTR_LONGITUDE == "longitude"
ATTR_BATTERY_LEVEL == "battery_level"
ATTR_ATTRIBUTION == "attribution"

\* numeric None (self._state = None); every real number of the model is >= 0
None == -1
\* self._accessToken = None
NoToken == "None"

\* ------------------------------------------------------------ input sets
\* hass.config.latitude / longitude (half units)
HassLatitude == 2
HassLongitude == 2

\* tokens the provider hands out; "rt0" is the one in the file at startup
AuthTokens == {"rt0", "rt1", "rt2"}
AccessTokens == {"at1", "at2"}
ZoneIds == {"z1", "z2"}

\* Python dicts of the provider's JSON, as records with the set of keys present
Zone(keys, id) == [keys |-> keys, zone_id |-> id]
NoId == Zone({"name"}, "")
Id(z) == Zone({"zone_id", "name"}, z)
\* the zone lists the provider answers with
ZoneLists ==
    { <<>>, <<NoId>>, <<Id("z1")>>, <<Id("z2")>>, <<Id("z1"), Id("z2")>>,
      <<Id("z2"), Id("z1")>>, <<NoId, Id("z1")>>, <<Id("z2"), NoId>> }

Vehicle(keys, lat, lon, bat) ==
    [keys |-> keys, lat |-> lat, lon |-> lon, battery |-> bat]
VehicleSet ==
    { Vehicle({"location", "battery"}, 1, 2, 101),
      Vehicle({"location", "battery"}, 3, 2, 180),
      Vehicle({"location"}, 5, 2, None),
      Vehicle({"battery"}, None, None, 101) }

SeqsUpTo(S, n) == UNION { [1..k -> S] : k \in 0..n }

\* JSON values: null, a (truthy) number, an object, an array
Json(kind, keys, at, rt, zones, items) ==
    [kind |-> kind, keys |-> keys, accessToken |-> at,
     authenticationToken |-> rt, zones |-> zones, items |-> items]
JsonNull == Json("null", {}, NoToken, NoToken, <<>>, <<>>)
JsonNum == Json("num", {}, NoToken, NoToken, <<>>, <<>>)
JsonDict(keys, at, rt, zones) == Json("dict", keys, at, rt, zones, <<>>)
JsonList(items) == Json("list", {}, NoToken, NoToken, <<>>, items)

\* HTTP responses: a status and a body that is empty, not JSON, or JSON
Response(status, body, json) == [status |-> status, body |-> body, json |-> json]
ErrorResponses == { Response(s, "empty", JsonNull) : s \in {401, 500} }
NonJsonResponses == { Response(200, b, JsonNull) : b \in {"empty", "text"} }
JsonResponses(values) == { Response(200, "json", v) : v \in values }

AuthJson ==
    {JsonNull, JsonNum, JsonDict({}, NoToken, NoToken, <<>>)}
    \cup { JsonDict({"accessToken"}, "at1", NoToken, <<>>),
           JsonDict({"authenticationToken"}, NoToken, "rt1", <<>>) }
    \cup { JsonDict({"accessToken", "authenticationToken"}, at, rt, <<>>) :
             at \in AccessTokens, rt \in AuthTokens \ {"rt0"} }
ZonesJson ==
    {JsonNull, JsonNum, JsonDict({}, NoToken, NoToken, <<>>),
     JsonDict({"message"}, NoToken, NoToken, <<>>), JsonList(<<>>)}
    \cup { JsonDict({"zones"}, NoToken, NoToken, zs) : zs \in ZoneLists }
VehiclesJson ==
    {JsonNull, JsonNum, JsonDict({"message"}, NoToken, NoToken, <<>>)}
    \cup { JsonList(vs) : vs \in SeqsUpTo(VehicleSet, MaxVehicles) }

AuthResponses == ErrorResponses \cup NonJsonResponses \cup JsonResponses(AuthJson)
ZonesResponses == ErrorResponses \cup NonJsonResponses \cup JsonResponses(ZonesJson)
VehiclesResponses == ErrorResponses \cup NonJsonResponses \cup JsonResponses(VehiclesJson)

\* the token file: missing, not parseable, or a JSON object (key |-> value pairs)
TokenFile(kind, data) == [kind |-> kind, data |-> data]
InitialTokenFiles ==
    { TokenFile("missing", {}), TokenFile("corrupt", {}), TokenFile("json", {}),
      TokenFile("json", {<<"other", "rt0">>}),
      TokenFile("json", {<<"authentication_token", "rt0">>}) }

\* ------------------------------------------------------- Python helpers
\* what __call returns: the parsed JSON value, or the Response object itself
JsonResult(v) == [tag |-> "json", status |-> None, body |-> "json", value |-> v]
ResponseResult(r) ==
    [tag |-> "Response", status |-> r.status, body |-> r.body, value |-> JsonNull]
PyNone == JsonResult(JsonNull)

\* bool(x): a Response is true iff its status is below 400 (Response.ok); a
\* JSON value is true unless it is None or an empty container
Truthy(x) ==
    IF x.tag = "Response" THEN x.status < 400
    ELSE CASE x.value.kind = "null" -> FALSE
           [] x.value.kind = "num" -> TRUE
           [] x.value.kind = "dict" -> x.value.keys # {}
           [] x.value.kind = "list" -> Len(x.value.items) > 0

\* `key in x` raises TypeError on a number; a Response is iterated (chunks of
\* bytes, never equal to a str) and a list here never holds a str
InRaises(x) == x.tag = "json" /\ x.value.kind \in {"num", "null"}
In(key, x) == x.tag = "json" /\ x.value.kind = "dict" /\ key \in x.value.keys

\* round(): a half-unit number to the nearest whole number, ties to even
Round(h) ==
    LET q == h \div 2
    IN IF h % 2 = 0 THEN q ELSE IF q % 2 = 0 THEN q ELSE q + 1

Abs(n) == IF n < 0 THEN -n ELSE n

\* geopy's distance(location_vehicle, location_hass).m in half metres, on the
\* model's grid of coordinates
Distance(lat, lon) == Abs(lat - HassLatitude) + Abs(lon - HassLongitude)

\* a Python dict as a function from the keys present
EmptyDict == [k \in {} |-> None]
SetItem(d, k, v) == [x \in DOMAIN d \cup {k} |-> IF x = k THEN v ELSE d[x]]

\* ---------------------------------------------------------------- state
VARIABLES
    pc,           \* "boot", "failed", "idle" (between cycles), "request", "authenticate"
    tokenFile,    \* the token file at token_path
    accessToken,  \* VoiNearestScooterApi._accessToken
    state,        \* VoiNearestScooterSensor._state
    attributes,   \* VoiNearestScooterSensor._attributes
    vehicles,     \* update(): what get_vehicles returned in the last cycle
    scooter,      \* update(): the vehicle selected in the last cycle, or {}
    raised,       \* the exception that left setup_platform / the last update()
    request,      \* the __request invocation waiting for its response
    lastRun,      \* Throttle: minutes since update() last returned, None = never
    lastCall,     \* what the last invocation of update() did
    trace,        \* the HTTP calls of the current cycle, in order
    answer,       \* the response the last HTTP call of the cycle was answered with
    returned,     \* the last return of the outermost __request in this cycle
    issued,       \* the authentication token of the provider's last full exchange answer
    diskFull      \* whether a write to the token file's volume fails

vars == <<pc, tokenFile, accessToken, state, attributes, vehicles, scooter,
          raised, request, lastRun, lastCall, trace, answer, returned, issued,
          diskFull>>

\* ------------------------------------------------------------ token file
\* homeassistant.util.json.load_json: {} for a missing file, an error for a
\* file that is not JSON
LoadJsonRaises(file) == file.kind = "corrupt"
LoadJson(file) == file.data
HasKey(cache, key) == \E p \in cache : p[1] = key
GetItem(cache, key) == (CHOOSE p \in cache : p[1] = key)[2]

\* __get_authentication_token
GetAuthenticationToken(file) == GetItem(LoadJson(file), "authentication_token")

\* __set_authentication_token
SetAuthenticationTokenLost(token) == tokenFile
SetAuthenticationTokenMerged(token) ==
    TokenFile("json", LoadJson(tokenFile) \cup {<<"authentication_token", token>>})
SetAuthenticationToken(token) == TokenFile("json", {<<"authentication_token", token>>})

\* --------------------------------------------------------------- the API
\* __call, after requests.request answered with r
Call(r) ==
    IF r.status < 400 /\ r.body = "json" THEN JsonResult(r.json) ELSE ResponseResult(r)

\* __authenticate, after the exchange was answered: the new access token, the
\* new token file and the exception raised, if any
AuthenticateSavesAccessToken(result, token, file) ==
    IF Truthy(result) /\ InRaises(result)
    THEN [accessToken |-> token, tokenFile |-> file, raised |-> "TypeError",
          saved |-> FALSE]
    ELSE IF Truthy(result) /\ In("accessToken", result)
                           /\ In("authenticationToken", result)
    THEN [accessToken |-> result.value.accessToken,
          tokenFile |-> SetAuthenticationToken(result.value.accessToken),
          raised |-> "none", saved |-> TRUE]
    ELSE [accessToken |-> token, tokenFile |-> file, raised |-> "none",
          saved |-> FALSE]
Authenticate(result, token, file) ==
    IF Truthy(result) /\ InRaises(result)
    THEN [accessToken |-> token, tokenFile |-> file, raised |-> "TypeError",
          saved |-> FALSE]
    ELSE IF Truthy(result) /\ In("accessToken", result)
                           /\ In("authenticationToken", result)
    THEN [accessToken |-> result.value.accessToken,
          tokenFile |-> SetAuthenticationToken(result.value.authenticationToken),
          raised |-> "none", saved |-> TRUE]
    ELSE [accessToken |-> token, tokenFile |-> file, raised |-> "none",
          saved |-> FALSE]

\* __request, after __call: return the result, authenticate and retry, or raise
RequestStepRetriesAgain(result, retry) ==
    IF Truthy(result) THEN "return"
    ELSE IF result.tag # "Response" THEN "AttributeError"
    ELSE IF result.status = 401 THEN "authenticate"
    ELSE "HTTPError"
RequestStepAnyError(result, retry) ==
    IF Truthy(result) THEN "return"
    ELSE IF result.tag # "Response" THEN "AttributeError"
    ELSE IF retry THEN "authenticate"
    ELSE "HTTPError"
RequestStep(result, retry) ==
    IF Truthy(result) THEN "return"
    ELSE IF result.tag # "Response" THEN "AttributeError"
    ELSE IF result.status = 401 /\ retry THEN "authenticate"
    ELSE "HTTPError"

\* the resources of the two GET requests and of the exchange
Resource(path, zone) == [path |-> path, zone |-> zone]
ZonesResource == Resource("zones", "")
VehiclesResource(zone_id) == Resource("vehicles", zone_id)
SessionResource == Resource("session", "")

\* get_zones, after __request returned result
GetZones(result) ==
    IF InRaises(result) THEN [raised |-> "TypeError", isNone |-> TRUE, zones |-> <<>>]
    ELSE IF In("zones", result)
    THEN [raised |-> "none", isNone |-> FALSE, zones |-> result.value.zones]
    ELSE [raised |-> "none", isNone |-> TRUE, zones |-> <<>>]

\* get_vehicles: whether the vehicles request is issued for zones[0]
ZoneFound(z) == ~z.isNone /\ Len(z.zones) > 0 /\ "zone_id" \in z.zones[1].keys
\* result[0]["zone_id"]: the zone the vehicles are requested for
LastZoneId(z) == z.zones[Len(z.zones)].zone_id
FirstZoneId(z) == z.zones[1].zone_id

\* ---------------------------------------------------------- the resolver
NoScooter == [keys |-> {}, lat |-> None, lon |-> None, battery |-> None,
              distance |-> None]
\* vehicle["distance"] = distance(...).m
WithDistance(v) ==
    [keys |-> v.keys \cup {"distance"}, lat |-> v.lat, lon |-> v.lon,
     battery |-> v.battery, distance |-> Distance(v.lat, v.lon)]

\* sorted(vehicles, key=lambda item: item["distance"]): a stable sort, as an
\* insertion of each item behind the items that are not larger
RECURSIVE InsertUnstable(_, _)
InsertUnstable(s, v) ==
    IF s = <<>> THEN <<v>>
    ELSE IF Head(s).distance < v.distance THEN <<Head(s)>> \o InsertUnstable(Tail(s), v)
    ELSE <<v>> \o s
RECURSIVE Insert(_, _)
Insert(s, v) ==
    IF s = <<>> THEN <<v>>
    ELSE IF Head(s).distance <= v.distance THEN <<Head(s)>> \o Insert(Tail(s), v)
    ELSE <<v>> \o s
Unsorted(s) == s
RECURSIVE Sorted(_)
Sorted(s) ==
    IF s = <<>> THEN <<>>
    ELSE Insert(Sorted(SubSeq(s, 1, Len(s) - 1)), s[Len(s)])

\* update() lines 179-187: the selected scooter, or the exception raised
ResolveUnguarded(v) ==
    IF ~Truthy(v) \/ v.tag = "Response" \/ v.value.kind # "list"
    THEN [raised |-> IF v.tag = "Response" /\ v.body = "empty" THEN "IndexError"
                     ELSE "TypeError",
          scooter |-> NoScooter]
    ELSE IF \E i \in 1..Len(v.value.items) : "location" \notin v.value.items[i].keys
    THEN [raised |-> "KeyError", scooter |-> NoScooter]
    ELSE [raised |-> "none",
          scooter |-> Sorted([i \in 1..Len(v.value.items) |->
                                WithDistance(v.value.items[i])])[1]]
Resolve(v) ==
    IF ~Truthy(v) THEN [raised |-> "none", scooter |-> NoScooter]
    ELSE IF v.tag = "Response"
    THEN [raised |-> IF v.body = "empty" THEN "IndexError" ELSE "TypeError",
          scooter |-> NoScooter]
    ELSE IF v.value.kind # "list" THEN [raised |-> "TypeError", scooter |-> NoScooter]
    ELSE IF \E i \in 1..Len(v.value.items) : "location" \notin v.value.items[i].keys
    THEN [raised |-> "KeyError", scooter |-> NoScooter]
    ELSE [raised |-> "none",
          scooter |-> Sorted([i \in 1..Len(v.value.items) |->
                                WithDistance(v.value.items[i])])[1]]

\* update() lines 189-194: the reading after publishing scooter s over the
\* state st and the attributes at
Publish(s, st, at) ==
    IF s.keys = {}
    THEN [raised |-> "none", state |-> st, attributes |-> at]
    ELSE LET located == SetItem(SetItem(at, ATTR_LATITUDE, Round(s.lat)),
                                ATTR_LONGITUDE, Round(s.lon))
         IN IF "battery" \notin s.keys
            THEN [raised |-> "KeyError", state |-> Round(s.distance),
                  attributes |-> located]
            ELSE [raised |-> "none", state |-> Round(s.distance),
                  attributes |-> SetItem(SetItem(located, ATTR_BATTERY_LEVEL,
                                                 Round(s.battery)),
                                         ATTR_ATTRIBUTION, ATTRIBUTION)]

\* ------------------------------------------------------------- startup
\* setup_platform: the error it raises, or "none" when the sensor is added
SetupPlatformRaisesUnlessEmpty(file) ==
    IF LoadJsonRaises(file) THEN "HomeAssistantError"
    ELSE IF LoadJson(file) = {} THEN "ValueError"
    ELSE "none"
SetupPlatformRaises(file) ==
    IF LoadJsonRaises(file) THEN "HomeAssistantError"
    ELSE IF LoadJson(file) = {} \/ ~HasKey(LoadJson(file), "authentication_token")
    THEN "ValueError"
    ELSE "none"

\* Throttle(MIN_TIME_BETWEEN_UPDATES): the call is dropped unless update() never
\* returned or returned more than the interval ago
ThrottledNever(last) == FALSE
Throttled(last) == last # None /\ ~(last > MIN_TIME_BETWEEN_UPDATES)

\* the kind of answer a response is, as the trace records it
Classify(r) ==
    IF r.status = 401 THEN "401"
    ELSE IF r.status >= 400 THEN "error"
    ELSE IF r.body # "json" THEN r.body
    ELSE IF Truthy(JsonResult(r.json)) THEN "data"
    ELSE "falsy"
\* whether the provider answered the exchange in full (and so rotated the token)
Exchanged(r) ==
    /\ r.status = 200
    /\ r.body = "json"
    /\ {"accessToken", "authenticationToken"} \subseteq r.json.keys

\* the trace's record of a GET and of an exchange
Get(resource, token, r, retry) ==
    [op |-> "GET", resource |-> resource, token |-> token, got |-> Classify(r),
     retry |-> retry]
Post(token, r) ==
    [op |-> "POST", resource |-> SessionResource, token |-> token,
     got |-> IF Exchanged(r) THEN "exchange" ELSE "failed", retry |-> FALSE]

NoRequest == [resource |-> ZonesResource, retry |-> FALSE]
NoReturn == [at |-> 0, value |-> PyNone]
NoAnswer == Response(0, "empty", JsonNull)

Init ==
    /\ pc = "boot"
    /\ tokenFile \in InitialTokenFiles
    /\ accessToken = NoToken
    /\ state = None
    /\ attributes = EmptyDict
    /\ vehicles = PyNone
    /\ scooter = NoScooter
    /\ raised = "none"
    /\ request = NoRequest
    /\ lastRun = None
    /\ lastCall = "none"
    /\ trace = <<>>
    /\ answer = NoAnswer
    /\ returned = NoReturn
    /\ issued = IF HasKey(tokenFile.data, "authentication_token")
                THEN GetItem(tokenFile.data, "authentication_token") ELSE NoToken
    /\ diskFull = FALSE

\* setup_platform, and the constructors of the sensor and of its API
SetupPlatform ==
    /\ pc = "boot"
    /\ raised' = SetupPlatformRaises(tokenFile)
    /\ pc' = IF SetupPlatformRaises(tokenFile) = "none" THEN "idle" ELSE "failed"
    /\ accessToken' = NoToken
    /\ state' = None
    /\ attributes' = EmptyDict
    /\ UNCHANGED <<tokenFile, vehicles, scooter, request, lastRun, lastCall, trace,
                   answer, returned, issued, diskFull>>

\* update() lines 175-176
NotCleared == [state |-> state, attributes |-> attributes]
Cleared == [state |-> None, attributes |-> EmptyDict]

\* update() is invoked: dropped by Throttle, or lines 175-176 and the zones request
Update ==
    /\ pc = "idle"
    /\ IF Throttled(lastRun)
       THEN /\ lastCall' = "throttled"
            /\ UNCHANGED <<pc, state, attributes, vehicles, scooter, raised, request,
                           trace, answer, returned>>
       ELSE /\ lastCall' = "executed"
            /\ state' = Cleared.state
            /\ attributes' = Cleared.attributes
            /\ vehicles' = PyNone
            /\ scooter' = NoScooter
            /\ raised' = "none"
            /\ request' = [resource |-> ZonesResource, retry |-> TRUE]
            /\ trace' = <<>>
            /\ answer' = NoAnswer
            /\ returned' = NoReturn
            /\ pc' = "request"
    /\ UNCHANGED <<tokenFile, accessToken, lastRun, issued, diskFull>>

\* update() is left by an exception: Throttle does not record the run
Raise(exc) ==
    /\ pc' = "idle"
    /\ raised' = exc
    /\ UNCHANGED <<state, attributes, vehicles, scooter, request, lastRun>>

\* update() lines 178-194 once get_vehicles returned v
Finish(v) ==
    LET res == Resolve(v)
        pub == Publish(res.scooter, state, attributes)
    IN /\ pc' = "idle"
       /\ vehicles' = v
       /\ scooter' = res.scooter
       /\ UNCHANGED request
       /\ IF res.raised # "none"
          THEN raised' = res.raised /\ UNCHANGED <<state, attributes, lastRun>>
          ELSE /\ raised' = pub.raised
               /\ state' = pub.state
               /\ attributes' = pub.attributes
               /\ lastRun' = IF pub.raised = "none" THEN 0 ELSE lastRun

\* get_vehicles lines 125-132 once the zones request returned result
AfterZones(result) ==
    LET z == GetZones(result)
    IN IF z.raised # "none" THEN Raise(z.raised)
       ELSE IF ZoneFound(z)
       THEN /\ request' = [resource |-> VehiclesResource(FirstZoneId(z)),
                           retry |-> TRUE]
            /\ pc' = "request"
            /\ UNCHANGED <<state, attributes, vehicles, scooter, raised, lastRun>>
       ELSE Finish(PyNone)

\* the provider answers the pending GET: __request lines 104-112 and what follows
RequestRespond ==
    /\ pc = "request"
    /\ \E r \in IF request.resource.path = "zones" THEN ZonesResponses
                ELSE VehiclesResponses :
         LET result == Call(r)
             step == RequestStep(result, request.retry)
             tr == Append(trace, Get(request.resource, accessToken, r, request.retry))
         IN /\ trace' = tr
            /\ answer' = r
            /\ CASE step = "authenticate" ->
                      /\ pc' = "authenticate"
                      /\ UNCHANGED <<state, attributes, vehicles, scooter, raised,
                                     request, lastRun, returned>>
                 [] step = "return" ->
                      /\ returned' = [at |-> Len(tr), value |-> result]
                      /\ IF request.resource.path = "zones" THEN AfterZones(result)
                         ELSE Finish(result)
                 [] OTHER -> Raise(step) /\ UNCHANGED returned
    /\ UNCHANGED <<tokenFile, accessToken, lastCall, issued, diskFull>>

\* homeassistant.util.json.save_json, called at line 97 through line 74: the
\* file it leaves and the error it raises; it writes a temporary file and
\* renames it, so a failed write leaves the old file
SaveJson(file, out) ==
    IF out.saved /\ diskFull
    THEN [file |-> file, raised |-> "WriteError"]
    ELSE [file |-> out.tokenFile, raised |-> "none"]

\* the provider answers the exchange: __authenticate, then the retry is sent
AuthRespond ==
    /\ pc = "authenticate"
    /\ IF LoadJsonRaises(tokenFile) \/ ~HasKey(LoadJson(tokenFile), "authentication_token")
       THEN /\ Raise(IF LoadJsonRaises(tokenFile) THEN "HomeAssistantError" ELSE "KeyError")
            /\ UNCHANGED <<tokenFile, accessToken, trace, answer, issued>>
       ELSE \E r \in AuthResponses :
              LET out == Authenticate(Call(r), accessToken, tokenFile)
              IN /\ trace' = Append(trace, Post(GetAuthenticationToken(tokenFile), r))
                 /\ answer' = r
                 /\ accessToken' = out.accessToken
                 /\ tokenFile' = SaveJson(tokenFile, out).file
                 /\ issued' = IF Exchanged(r)
                              THEN r.json.authenticationToken ELSE issued
                 /\ IF out.raised # "none" THEN Raise(out.raised)
                    ELSE IF SaveJson(tokenFile, out).raised # "none"
                    THEN Raise(SaveJson(tokenFile, out).raised)
                    ELSE /\ pc' = "request"
                         /\ request' = [request EXCEPT !.retry = FALSE]
                         /\ UNCHANGED <<state, attributes, vehicles, scooter, raised,
                                        lastRun>>
    /\ UNCHANGED <<lastCall, returned, diskFull>>

\* time passes between two cycles
Tick ==
    /\ pc = "idle"
    /\ lastRun # None
    /\ lastRun <= MIN_TIME_BETWEEN_UPDATES
    /\ lastRun' = lastRun + TickMinutes
    /\ UNCHANGED <<pc, tokenFile, accessToken, state, attributes, vehicles, scooter,
                   raised, request, lastCall, trace, answer, returned, issued,
                   diskFull>>

\* the host restarts: memory is lost, the token file stays
Restart ==
    /\ pc \in {"idle", "failed"}
    /\ pc' = "boot"
    /\ accessToken' = NoToken
    /\ state' = None
    /\ attributes' = EmptyDict
    /\ vehicles' = PyNone
    /\ scooter' = NoScooter
    /\ raised' = "none"
    /\ request' = NoRequest
    /\ lastRun' = None
    /\ lastCall' = "none"
    /\ trace' = <<>>
    /\ answer' = NoAnswer
    /\ returned' = NoReturn
    /\ UNCHANGED <<tokenFile, issued, diskFull>>

Next ==
    \/ SetupPlatform
    \/ Update
    \/ RequestRespond
    \/ AuthRespond
    \/ Tick
    \/ Restart

Spec == Init /\ [][Next]_vars

\* the volume of the token file runs full, or space is freed
DiskFault ==
    /\ diskFull' = ~diskFull
    /\ UNCHANGED <<pc, tokenFile, accessToken, state, attributes, vehicles, scooter,
                   raised, request, lastRun, lastCall, trace, answer, returned, issued>>

NextDisk ==
    \/ Next
    \/ DiskFault

\* the program on a volume whose writes can fail
SpecDisk == Init /\ [][NextDisk]_vars

\* ===================================================================
\* Properties
\* ===================================================================
\* an executed cycle has ended (update() returned or raised)
CycleEnded == pc = "idle" /\ trace # <<>>
\* the reading is stale
Stale == state = None /\ attributes = EmptyDict
LastCall == trace[Len(trace)]
\* entry i of the trace is the first attempt of a logical __request
LogicalStart(i) == trace[i].op = "GET" /\ trace[i].retry
\* the logical request that starts at i is over
LogicalOver(i) == pc = "idle" \/ \E j \in (i + 1)..Len(trace) : LogicalStart(j)
\* the last entry of the logical request that starts at i
LogicalEnd(i) ==
    IF \E j \in (i + 1)..Len(trace) : LogicalStart(j)
    THEN (CHOOSE j \in (i + 1)..Len(trace) :
            LogicalStart(j) /\ \A k \in (i + 1)..(j - 1) : ~LogicalStart(k)) - 1
    ELSE Len(trace)
\* a response that carries no data: an error status other than 401, or a
\* successful status with an empty or non-JSON body
NothingResult(r) == (r.status >= 400 /\ r.status # 401) \/ (r.status = 200 /\ r.body # "json")

\* C1: a logical __request whose first attempt is answered 401 performs exactly
\* one __authenticate and re-sends the same resource exactly once; a failing
\* second attempt raises and nothing follows it; a succeeding second attempt's
\* data is what the request returns.
C1_RetryOnce ==
    \A i \in 1..Len(trace) :
      (LogicalStart(i) /\ trace[i].got = "401" /\ LogicalOver(i)) =>
         /\ LogicalEnd(i) = i + 2
         /\ trace[i + 1].op = "POST"
         /\ trace[i + 2].op = "GET"
         /\ trace[i + 2].resource = trace[i].resource
         /\ ~trace[i + 2].retry
         /\ trace[i + 2].got \in {"401", "error", "falsy"} =>
               (pc = "idle" /\ Len(trace) = i + 2 /\ raised # "none")
         /\ (trace[i + 2].got \in {"data", "empty", "text"} /\ Len(trace) = i + 2) =>
               /\ returned.at = i + 2
               /\ returned.value = IF answer.body = "json" THEN JsonResult(answer.json)
                                   ELSE ResponseResult(answer)

\* C2: a cycle in which a provider response was a nothing-result ends stale and
\* without an exception.
C2_NothingResultNotThrown ==
    (CycleEnded /\ (NothingResult(answer)
                    \/ \E i \in 1..Len(trace) : trace[i].got \in {"error", "empty", "text"}))
      => (Stale /\ raised = "none")

\* C3: every executed cycle clears the reading before its first provider call;
\* a cycle that resolves no vehicle ends stale; and a reading that is published
\* after a cycle is that of a vehicle of that cycle's list.
C3_ClearedEachCycle ==
    /\ pc \in {"request", "authenticate"} => Stale
    /\ (CycleEnded /\ scooter = NoScooter) => Stale
    /\ (CycleEnded /\ ~Stale) =>
          /\ vehicles.tag = "json"
          /\ vehicles.value.kind = "list"
          /\ \E j \in 1..Len(vehicles.value.items) :
               LET v == vehicles.value.items[j]
               IN /\ "location" \in v.keys
                  /\ state = Round(Distance(v.lat, v.lon))
                  /\ attributes[ATTR_LATITUDE] = Round(v.lat)
                  /\ attributes[ATTR_LONGITUDE] = Round(v.lon)
                  /\ ATTR_BATTERY_LEVEL \in DOMAIN attributes =>
                        ("battery" \in v.keys
                         /\ attributes[ATTR_BATTERY_LEVEL] = Round(v.battery))
\* a cycle that raised ended stale, after an earlier cycle had returned normally
C3_Witness == CycleEnded /\ raised # "none" /\ Stale /\ lastRun # None

\* C4: a successful answer with an empty vehicle list (or an empty zones
\* object) is not an error: update() returns normally with a stale reading.
C4_EmptyListNotError ==
    (/\ CycleEnded
     /\ LastCall.op = "GET"
     /\ answer.status = 200
     /\ answer.body = "json"
     /\ \/ LastCall.resource.path = "vehicles" /\ answer.json = JsonList(<<>>)
        \/ LastCall.resource.path = "zones"
             /\ answer.json = JsonDict({}, NoToken, NoToken, <<>>))
      => (raised = "none" /\ Stale)

\* the state right after __authenticate ran (the exchange is the last call)
AfterExchange == trace # <<>> /\ LastCall.op = "POST"

\* C5: __authenticate takes over both tokens of a full exchange answer; after
\* any other answer both tokens are unchanged and nothing is raised.
C5_Authenticate ==
    AfterExchange =>
       IF Exchanged(answer)
       THEN /\ accessToken = answer.json.accessToken
            /\ tokenFile = TokenFile("json", {<<"authentication_token",
                                                answer.json.authenticationToken>>})
       ELSE /\ accessToken = trace[Len(trace) - 1].token
            /\ tokenFile = TokenFile("json", {<<"authentication_token", LastCall.token>>})
            /\ raised = "none"

\* C6: the token file never holds an access token: every write stores exactly
\* the authentication token of the provider's answer, and a sensor that was
\* just set up has no access token whatever the file holds.
C6_AccessTokenNotPersisted ==
    /\ [](\A p \in tokenFile.data : p[2] \notin AccessTokens /\ p[2] # accessToken)
    /\ []((pc = "idle" /\ lastCall = "none") => accessToken = NoToken)
    /\ [][tokenFile' # tokenFile =>
            /\ Exchanged(answer')
            /\ tokenFile' = TokenFile("json", {<<"authentication_token",
                                                 answer'.json.authenticationToken>>})]_vars
\* the host was restarted after the provider had rotated the token twice
C6_Witness ==
    /\ pc = "idle"
    /\ lastCall = "none"
    /\ tokenFile.data = {<<"authentication_token", "rt2">>}
    /\ accessToken = NoToken

\* C7: the token file holds the authentication token of the provider's last
\* full exchange answer (the startup token before the first), and every
\* exchange sends that token.
C7_RotationOrder ==
    /\ [](pc \in {"idle", "request", "authenticate"} =>
            tokenFile = TokenFile("json", {<<"authentication_token", issued>>}))
    /\ [][(pc = "authenticate" /\ trace' # trace) =>
            trace'[Len(trace')].token = issued]_vars
\* the second exchange of a cycle sent the token the first one had returned
C7_Witness ==
    \E i, j \in 1..Len(trace) :
       /\ i < j
       /\ trace[i].op = "POST" /\ trace[i].got = "exchange"
       /\ trace[j].op = "POST" /\ trace[j].got = "exchange"
       /\ trace[j].token = "rt1"
       /\ issued = "rt2"

\* C8: setup_platform raises on a token file that is missing, empty or without
\* the authentication_token key, before any HTTP call and without a sensor; a
\* sensor exists only over a file that has the key.
C8_SetupFailsFast ==
    /\ pc = "failed" =>
          /\ raised \in {"ValueError", "HomeAssistantError"}
          /\ trace = <<>>
          /\ ~HasKey(tokenFile.data, "authentication_token")
    /\ pc \in {"idle", "request", "authenticate"} =>
          /\ tokenFile.kind = "json"
          /\ HasKey(tokenFile.data, "authentication_token")
\* setup failed on a file that is JSON but has no authentication_token key
C8_Witness ==
    pc = "failed" /\ raised = "ValueError" /\ tokenFile.data = {<<"other", "rt0">>}

\* the first index of items whose distance no other item undercuts
FirstMin(items) ==
    CHOOSE j \in 1..Len(items) :
       /\ \A i \in 1..Len(items) :
             Distance(items[j].lat, items[j].lon) <= Distance(items[i].lat, items[i].lon)
       /\ \A i \in 1..(j - 1) :
             Distance(items[i].lat, items[i].lon) > Distance(items[j].lat, items[j].lon)
\* update() got a non-empty list of vehicles that all have a location
Located ==
    /\ CycleEnded
    /\ vehicles.tag = "json"
    /\ vehicles.value.kind = "list"
    /\ vehicles.value.items # <<>>
    /\ \A i \in 1..Len(vehicles.value.items) : "location" \in vehicles.value.items[i].keys

\* C9: the vehicle update() publishes is at most as far from the reference
\* point as every vehicle of the list.
C9_Minimum ==
    Located =>
       /\ scooter # NoScooter
       /\ state = Round(scooter.distance)
       /\ attributes[ATTR_LATITUDE] = Round(scooter.lat)
       /\ attributes[ATTR_LONGITUDE] = Round(scooter.lon)
       /\ \E j \in 1..Len(vehicles.value.items) :
             scooter = WithDistance(vehicles.value.items[j])
       /\ \A i \in 1..Len(vehicles.value.items) :
             scooter.distance <= Distance(vehicles.value.items[i].lat,
                                          vehicles.value.items[i].lon)
\* the nearer vehicle came second in the list and was published
C9_Witness ==
    /\ Located
    /\ Len(vehicles.value.items) = 2
    /\ Distance(vehicles.value.items[1].lat, vehicles.value.items[1].lon)
         > Distance(vehicles.value.items[2].lat, vehicles.value.items[2].lon)
    /\ raised = "none"
    /\ state = Round(Distance(vehicles.value.items[2].lat, vehicles.value.items[2].lon))

\* C10: among the vehicles at the minimum distance the one that comes first in
\* the list is selected, so the selection is a function of the list.
C10_FirstOfTies ==
    Located => scooter = WithDistance(vehicles.value.items[FirstMin(vehicles.value.items)])
\* two different vehicles at the same distance: the first was published
C10_Witness ==
    /\ Located
    /\ Len(vehicles.value.items) = 2
    /\ vehicles.value.items[1] # vehicles.value.items[2]
    /\ Distance(vehicles.value.items[1].lat, vehicles.value.items[1].lon)
         = Distance(vehicles.value.items[2].lat, vehicles.value.items[2].lon)
    /\ attributes[ATTR_LATITUDE] = Round(vehicles.value.items[1].lat)
    /\ attributes[ATTR_LATITUDE] # Round(vehicles.value.items[2].lat)

\* get_vehicles returned None: the zones request returned and no vehicles
\* request followed it
NoVehicles ==
    /\ CycleEnded
    /\ LastCall.op = "GET"
    /\ LastCall.resource.path = "zones"
    /\ returned.at = Len(trace)
    /\ ~(answer.body = "json" /\ answer.json.kind = "num")

\* C11: the resolver step of update() yields no candidate for None and for an
\* empty list: nothing is raised and the reading stays stale.
C11_NoCandidate ==
    /\ NoVehicles => (vehicles = PyNone /\ scooter = NoScooter /\ raised = "none" /\ Stale)
    /\ \A v \in {PyNone, JsonResult(JsonList(<<>>))} :
          /\ Resolve(v) = [raised |-> "none", scooter |-> NoScooter]
          /\ Publish(Resolve(v).scooter, None, EmptyDict)
               = [raised |-> "none", state |-> None, attributes |-> EmptyDict]
\* the zones answer held an empty zone list, so update() resolved over None
C11_Witness ==
    /\ NoVehicles
    /\ answer.body = "json"
    /\ "zones" \in answer.json.keys
    /\ answer.json.zones = <<>>
    /\ raised = "none"

\* the attributes of a fresh reading
FreshKeys == {ATTR_LATITUDE, ATTR_LONGITUDE, ATTR_BATTERY_LEVEL, ATTR_ATTRIBUTION}

\* C12: after a cycle the reading is fully stale or fully fresh: the state and
\* all four attributes, taken from one vehicle of the list.
C12_NoPartialReading ==
    CycleEnded =>
       \/ Stale
       \/ /\ state # None
          /\ DOMAIN attributes = FreshKeys
          /\ \E j \in 1..Len(vehicles.value.items) :
                LET v == vehicles.value.items[j]
                IN /\ state = Round(Distance(v.lat, v.lon))
                   /\ attributes[ATTR_LATITUDE] = Round(v.lat)
                   /\ attributes[ATTR_LONGITUDE] = Round(v.lon)
                   /\ attributes[ATTR_BATTERY_LEVEL] = Round(v.battery)

\* the vehicles request is pending and the zones request has just returned
ZonesJustReturned ==
    /\ pc = "request"
    /\ request.resource.path = "vehicles"
    /\ LastCall.op = "GET"
    /\ LastCall.resource.path = "zones"
\* the zones answer names a first zone with an id
FirstZoneNamed(r) ==
    /\ r.status = 200
    /\ r.body = "json"
    /\ "zones" \in r.json.keys
    /\ r.json.zones # <<>>
    /\ "zone_id" \in r.json.zones[1].keys

\* C13: get_vehicles sends the zones request first and the vehicles request only
\* after it returned a non-empty zone list, always for the first zone's id;
\* when no zone is found it returns None and sends no vehicles request.
C13_ZonesThenVehicles ==
    /\ trace # <<>> => trace[1].op = "GET" /\ trace[1].resource = ZonesResource
    /\ \A i \in 1..Len(trace) :
         (trace[i].op = "GET" /\ trace[i].resource.path = "vehicles") =>
            /\ trace[i].resource = request.resource
            /\ \E k \in 1..(i - 1) :
                  /\ trace[k].resource = ZonesResource
                  /\ trace[k].got = "data"
                  /\ \A j \in (k + 1)..Len(trace) : trace[j].resource # ZonesResource
    /\ ZonesJustReturned =>
         /\ FirstZoneNamed(answer)
         /\ request.resource = VehiclesResource(answer.json.zones[1].zone_id)
    /\ (NoVehicles /\ ~FirstZoneNamed(answer)) =>
         /\ vehicles = PyNone
         /\ raised = "none"
         /\ \A i \in 1..Len(trace) : trace[i].resource.path # "vehicles"
    /\ (NoVehicles /\ FirstZoneNamed(answer)) => FALSE
\* a list of two zones was answered and the vehicles of the first were requested
C13_Witness ==
    /\ CycleEnded
    /\ LastCall.resource = VehiclesResource("z2")
    /\ trace[1].resource = ZonesResource
    /\ trace[1].got = "data"
    /\ Len(trace) = 2
    /\ raised = "none"
    /\ ~Stale
\* no zone was found and no vehicles request was sent
C13_WitnessNoZone ==
    /\ NoVehicles
    /\ answer.body = "json"
    /\ "zones" \in answer.json.keys
    /\ answer.json.zones # <<>>
    /\ "zone_id" \notin answer.json.zones[1].keys

\* the last request of the cycle was answered with a successful status and an
\* empty or non-JSON body
NoDataAnswer ==
    /\ CycleEnded
    /\ LastCall.op = "GET"
    /\ LastCall.got \in {"empty", "text"}

\* C14: after a successful-status answer with an empty or non-JSON body,
\* get_zones and get_vehicles return None: update() receives None as its
\* vehicle list.
C14_NoDataReturnsNone == NoDataAnswer => vehicles = PyNone
\* get_zones alone does so: a zones request answered without data ends the
\* cycle with None and without an exception
C14_ZonesNoData ==
    (NoDataAnswer /\ LastCall.resource = ZonesResource) =>
       (vehicles = PyNone /\ raised = "none" /\ Stale)

\* entry i of the trace is an exchange that failed, and what follows it is known
FailedExchange(i) ==
    /\ trace[i].op = "POST"
    /\ trace[i].got = "failed"
    /\ (pc = "idle" \/ Len(trace) > i)

\* C15: after a failed exchange the retry is sent with the unchanged access
\* token; when the provider rejects it too, the cycle ends with the 401's
\* HTTPError and a stale reading, both tokens as they were, and the next
\* invocation of update() runs again.
C15_FailedExchangeKeepsTokens ==
    \A i \in 2..Len(trace) :
      FailedExchange(i) =>
         /\ Len(trace) > i
         /\ trace[i + 1].op = "GET"
         /\ ~trace[i + 1].retry
         /\ trace[i + 1].resource = trace[i - 1].resource
         /\ trace[i + 1].token = trace[i - 1].token
         /\ trace[i + 1].got = "401" =>
               /\ Len(trace) = i + 1
               /\ pc = "idle"
               /\ raised = "HTTPError"
               /\ Stale
               /\ accessToken = trace[i - 1].token
               /\ tokenFile = TokenFile("json", {<<"authentication_token", trace[i].token>>})
               /\ ~Throttled(lastRun)

\* C16 as stated: no invocation of update() is ever dropped.
C16_EveryInvocationExecutes == lastCall # "throttled"

\* update() returned normally at most the minimum interval ago
WithinInterval == lastRun # None /\ lastRun <= MIN_TIME_BETWEEN_UPDATES

\* C16: update() is throttled by the component: a refresh cycle runs only when
\* update() never returned normally or did so more than
\* MIN_TIME_BETWEEN_UPDATES ago; an invocation within the interval is dropped
\* and changes neither the reading nor the tokens.
C16_Throttled ==
    /\ [](pc \in {"request", "authenticate"} => ~WithinInterval)
    /\ [](lastCall = "throttled" => (lastRun # None /\ raised = "none"))
    /\ [][(pc = "idle" /\ WithinInterval /\ lastRun' = lastRun) =>
            /\ pc' \in {"idle", "boot"}
            /\ pc' = "idle" =>
                 UNCHANGED <<state, attributes, tokenFile, accessToken, trace, raised>>]_vars
    /\ [][(pc = "idle" /\ pc' = "request") => (lastCall' = "executed" /\ trace' = <<>>)]_vars
\* an invocation was dropped and the reading of the earlier cycle is kept
C16_Witness ==
    /\ lastCall = "throttled"
    /\ pc = "idle"
    /\ WithinInterval
    /\ ~Stale

\* the token file f holds exactly the token t, and loading it returns t
Holds(f, t) ==
    /\ ~LoadJsonRaises(f)
    /\ LoadJson(f) = {<<"authentication_token", t>>}
    /\ HasKey(LoadJson(f), "authentication_token")
    /\ GetAuthenticationToken(f) = t

Calls(op, i, j) == {k \in i..j : trace[k].op = op}

\* C18: a cycle makes at most two logical requests, each of at most two
\* attempts and one exchange: at most six HTTP calls and two exchanges; the
\* vehicles request has its own retry whether or not the zones request used
\* its one.
C18_BoundedCalls ==
    /\ Len(trace) <= 6
    /\ pc \in {"request", "authenticate"} => Len(trace) < 6
    /\ Cardinality(Calls("POST", 1, Len(trace))) <= 2
    /\ Cardinality({i \in 1..Len(trace) : LogicalStart(i)}) <= 2
    /\ \A i \in 1..Len(trace) :
         LogicalStart(i) =>
            /\ Cardinality(Calls("GET", i, LogicalEnd(i))) <= 2
            /\ Cardinality(Calls("POST", i, LogicalEnd(i))) <= 1
            /\ \A k \in i..LogicalEnd(i) : trace[k].resource \in {trace[i].resource, SessionResource}
    /\ \A i \in 1..Len(trace) :
         ( /\ trace[i].resource.path = "vehicles"
           /\ \A k \in 1..(i - 1) : trace[k].resource.path # "vehicles" ) => trace[i].retry
\* a cycle of six calls: both requests were rejected once and both exchanges
\* rotated the token
C18_Witness ==
    /\ CycleEnded
    /\ Len(trace) = 6
    /\ Calls("POST", 1, 6) = {2, 5}
    /\ trace[2].got = "exchange"
    /\ trace[5].got = "exchange"
    /\ raised = "none"
    /\ ~Stale

\* C19: __authenticate runs only right after the first attempt of a logical
\* request was answered 401; an answer with another failing status ends the
\* cycle at once with HTTPError, without exchange or retry and with both
\* tokens unchanged; a successful first attempt is followed by no exchange.
C19_AuthenticateOn401Only ==
    /\ [](pc = "authenticate" => (LastCall.op = "GET" /\ LastCall.got = "401" /\ LastCall.retry))
    /\ [](\A i \in 1..Len(trace) :
            trace[i].op = "POST" =>
               /\ i > 1
               /\ trace[i - 1].op = "GET"
               /\ trace[i - 1].got = "401"
               /\ trace[i - 1].retry)
    /\ [](\A i \in 1..Len(trace) :
            (trace[i].op = "GET" /\ trace[i].got = "error") =>
               /\ i = Len(trace)
               /\ pc = "idle"
               /\ raised = "HTTPError"
               /\ accessToken = trace[i].token)
    /\ [][(pc = "request" /\ trace' # trace /\ trace'[Len(trace')].got = "error") =>
            /\ pc' = "idle"
            /\ raised' = "HTTPError"
            /\ UNCHANGED <<accessToken, tokenFile, state, attributes>>]_vars
\* a first attempt was answered with a failing status other than 401
C19_Witness ==
    /\ CycleEnded
    /\ LastCall.op = "GET"
    /\ LastCall.got = "error"
    /\ LastCall.retry
    /\ raised = "HTTPError"
    /\ Calls("POST", 1, Len(trace)) = {}

\* C20: when the exchange rotated the tokens and the write of the token file
\* fails, the cycle ends with the write's error, the file holds the token it
\* held, and the access token in memory is the one from before the exchange.
C20_TokensTogether ==
    (CycleEnded /\ raised = "WriteError") =>
       /\ LastCall.op = "POST"
       /\ tokenFile = TokenFile("json", {<<"authentication_token", LastCall.token>>})
       /\ accessToken = trace[Len(trace) - 1].token
\* what the code does keep: the cycle ends with the error and the old file
C20_FileIntact ==
    (CycleEnded /\ raised = "WriteError") =>
       /\ LastCall.op = "POST"
       /\ LastCall.got = "exchange"
       /\ tokenFile = TokenFile("json", {<<"authentication_token", LastCall.token>>})
       /\ accessToken = answer.json.accessToken
       /\ Stale

====
